---- MODULE Spec2Model ----
(***************************************************************************)
(* VeriFILE: a file's digest is computed under a selected algorithm,       *)
(* compared with an optional reference digest, and the outcome is kept in  *)
(* a history that is rewritten to verifications.json after each record.    *)
(*                                                                         *)
(* Text (Rust String / &str) is a sequence of one-character strings, so    *)
(* that trimming, case folding, tokenising and hex encoding are computed   *)
(* character by character as the code computes them.                       *)
(***************************************************************************)
EXTENDS Integers, Sequences, FiniteSets, TLC

(***************************************************************************)
(* Characters and the std string functions the code calls.                 *)
(***************************************************************************)

\* char::is_whitespace restricted to the ASCII white space the model's texts use
WhiteSpace == {" ", "\t", "\n", "\r"}

UpperAlpha == <<"A", "B", "C", "D", "E", "F", "G", "H", "I", "J", "K", "L", "M",
                "N", "O", "P", "Q", "R", "S", "T", "U", "V", "W", "X", "Y", "Z">>

LowerAlpha == <<"a", "b", "c", "d", "e", "f", "g", "h", "i", "j", "k", "l", "m",
                "n", "o", "p", "q", "r", "s", "t", "u", "v", "w", "x", "y", "z">>

\* the digits hex::encode and {:x} emit, in value order
HexDigits == <<"0", "1", "2", "3", "4", "5", "6", "7",
               "8", "9", "a", "b", "c", "d", "e", "f">>

Range(s) == {s[i] : i \in 1..Len(s)}

LowerOf == [c \in Range(UpperAlpha) |->
               LowerAlpha[CHOOSE i \in 1..Len(UpperAlpha) : UpperAlpha[i] = c]]

UpperOf == [c \in Range(LowerAlpha) |->
               UpperAlpha[CHOOSE i \in 1..Len(LowerAlpha) : LowerAlpha[i] = c]]

\* u8::to_ascii_lowercase / to_ascii_uppercase on one character
to_ascii_lowercase(c) == IF c \in DOMAIN LowerOf THEN LowerOf[c] ELSE c

to_ascii_uppercase(c) == IF c \in DOMAIN UpperOf THEN UpperOf[c] ELSE c

\* str::eq_ignore_ascii_case: same length, equal character by character
\* after ASCII lower-casing
eq_ignore_ascii_case(a, b) ==
    /\ Len(a) = Len(b)
    /\ \A i \in 1..Len(a) : to_ascii_lowercase(a[i]) = to_ascii_lowercase(b[i])

RECURSIVE trim_start(_)
trim_start(s) ==
    IF s # <<>> /\ Head(s) \in WhiteSpace THEN trim_start(Tail(s)) ELSE s

RECURSIVE trim_end(_)
trim_end(s) ==
    IF s # <<>> /\ s[Len(s)] \in WhiteSpace
    THEN trim_end(SubSeq(s, 1, Len(s) - 1))
    ELSE s

\* str::trim
trim(s) == trim_end(trim_start(s))

\* char::is_ascii_hexdigit
is_ascii_hexdigit(c) ==
    \/ c \in Range(HexDigits)
    \/ c \in {"A", "B", "C", "D", "E", "F"}

\* the pieces of s from index `start` on, cut at the separator characters,
\* empty pieces included: str::split on a set of characters
RECURSIVE SplitFrom(_, _, _)
SplitFrom(s, seps, start) ==
    LET rest == {i \in start..Len(s) : s[i] \in seps}
    IN  IF rest = {} THEN <<SubSeq(s, start, Len(s))>>
        ELSE LET c == CHOOSE i \in rest : \A j \in rest : i <= j
             IN  <<SubSeq(s, start, c - 1)>> \o SplitFrom(s, seps, c + 1)

SplitOn(s, seps) == SplitFrom(s, seps, 1)

\* str::lines: split at "\n", a line's trailing "\r" dropped, and no final
\* empty line after a closing "\n"
lines(s) ==
    LET raw == SplitOn(s, {"\n"})
        cut == IF raw[Len(raw)] = <<>> THEN SubSeq(raw, 1, Len(raw) - 1) ELSE raw
        strip(l) == IF l # <<>> /\ l[Len(l)] = "\r" THEN SubSeq(l, 1, Len(l) - 1) ELSE l
    IN  [i \in 1..Len(cut) |-> strip(cut[i])]

\* str::split_whitespace: the non-empty maximal runs of non-white-space
split_whitespace(s) ==
    SelectSeq(SplitOn(s, WhiteSpace), LAMBDA t : t # <<>>)

(***************************************************************************)
(* utils.rs: the reference parser.                                         *)
(***************************************************************************)

None == [some |-> FALSE]

Some(v) == [some |-> TRUE, val |-> v]

\* the inner loop without the test of the token's length
RECURSIVE first_hex_token_unsized(_)
first_hex_token_unsized(tokens) ==
    IF tokens = <<>> THEN None
    ELSE IF \A i \in 1..Len(Head(tokens)) : is_ascii_hexdigit(Head(tokens)[i])
         THEN Some(Head(tokens))
         ELSE first_hex_token_unsized(Tail(tokens))

\* the inner loop: the first token that is all hex digits and >= 16 long
RECURSIVE first_hex_token(_)
first_hex_token(tokens) ==
    IF tokens = <<>> THEN None
    ELSE IF (\A i \in 1..Len(Head(tokens)) : is_ascii_hexdigit(Head(tokens)[i]))
            /\ Len(Head(tokens)) >= 16
         THEN Some(Head(tokens))
         ELSE first_hex_token(Tail(tokens))

\* the loop returning None after the first non-blank line without a hex
\* token
RECURSIVE parse_lines_first_line(_)
parse_lines_first_line(ls) ==
    IF ls = <<>> THEN None
    ELSE LET t      == trim(Head(ls))
             tokens == split_whitespace(t)
         IN  IF t = <<>> THEN parse_lines_first_line(Tail(ls))
             ELSE IF Len(tokens) = 1 THEN Some(tokens[1])
             ELSE first_hex_token(tokens)

\* the loop testing a single token as it tests the tokens of a longer line
RECURSIVE parse_lines_validating(_)
parse_lines_validating(ls) ==
    IF ls = <<>> THEN None
    ELSE LET t      == trim(Head(ls))
             tokens == split_whitespace(t)
         IN  IF t = <<>> THEN parse_lines_validating(Tail(ls))
             ELSE LET found == first_hex_token(tokens)
                  IN  IF found.some THEN found ELSE parse_lines_validating(Tail(ls))

\* the outer loop over the lines: a blank line is skipped, a single-token
\* line returns its token, a line with several tokens returns its first
\* hex token and, having none, lets the loop go on to the next line
RECURSIVE parse_lines(_)
parse_lines(ls) ==
    IF ls = <<>> THEN None
    ELSE LET t      == trim(Head(ls))
             tokens == split_whitespace(t)
         IN  IF t = <<>> THEN parse_lines(Tail(ls))
             ELSE IF Len(tokens) = 1 THEN Some(tokens[1])
             ELSE LET found == first_hex_token(tokens)
                  IN  IF found.some THEN found ELSE parse_lines(Tail(ls))

parse_first_hash_from_text(s) == parse_lines(lines(s))

(***************************************************************************)
(* models.rs                                                               *)
(***************************************************************************)

\* Algorithm::all()
Algorithm == {"Blake3", "Sha256", "Sha512", "Sha3_256", "Md5"}

VerificationStatus == {"Success", "Failed", "InProgress"}

VerificationStep == {"UploadFile", "UploadHash", "Verifying", "Result"}

(***************************************************************************)
(* hashers.rs: the streaming digest.  A reader is the sequence of the      *)
(* results of its read calls: [ok |-> TRUE, data |-> bytes] (n = Len(data),*)
(* n = 0 at end of stream) or [ok |-> FALSE] for an io::Error.             *)
(***************************************************************************)

\* bytes the algorithm's finalize() returns
OutputBytes(algorithm) ==
    CASE algorithm = "Blake3"   -> 32
      [] algorithm = "Sha256"   -> 32
      [] algorithm = "Sha512"   -> 64
      [] algorithm = "Sha3_256" -> 32
      [] algorithm = "Md5"      -> 16

AlgorithmTag(algorithm) ==
    CASE algorithm = "Blake3"   -> 11
      [] algorithm = "Sha256"   -> 23
      [] algorithm = "Sha512"   -> 37
      [] algorithm = "Sha3_256" -> 41
      [] algorithm = "Md5"      -> 53

RECURSIVE WeightedSum(_, _, _)
WeightedSum(msg, j, i) ==
    IF j > Len(msg) THEN 0
    ELSE (31 * j + i) * (msg[j] + 1) + WeightedSum(msg, j + 1, i)

\* Hasher::new() ... update(..) ... finalize(): the hash primitives are the
\* crates' (blake3, sha2, sha3, md5); here a primitive is a fixed function
\* of the algorithm and of the bytes fed to it, in the order fed, giving
\* OutputBytes(algorithm) bytes
finalize(algorithm, fed) ==
    [i \in 1..OutputBytes(algorithm) |->
        (AlgorithmTag(algorithm) + 7 * i + 13 * Len(fed) + WeightedSum(fed, 1, i)) % 256]

\* the encoding with upper-case digits, as {:X} writes them
hex_encode_upper(bytes) ==
    [k \in 1..(2 * Len(bytes)) |->
        to_ascii_uppercase(IF k % 2 = 1 THEN HexDigits[(bytes[(k + 1) \div 2] \div 16) + 1]
                                        ELSE HexDigits[(bytes[k \div 2] % 16) + 1])]

\* hex::encode, blake3 to_hex and md5's {:x}: two lower-case digits a byte
hex_encode(bytes) ==
    [k \in 1..(2 * Len(bytes)) |->
        IF k % 2 = 1 THEN HexDigits[(bytes[(k + 1) \div 2] \div 16) + 1]
                     ELSE HexDigits[(bytes[k \div 2] % 16) + 1]]

Ok(v) == [ok |-> TRUE, val |-> v]

Err(e) == [ok |-> FALSE, err |-> e]

\* the loop with the hasher made anew for every read
RECURSIVE read_loop_overwrites(_, _)
read_loop_overwrites(reads, fed) ==
    IF reads = <<>> THEN Ok(fed)
    ELSE IF ~Head(reads).ok THEN Err("io::Error")
    ELSE IF Len(Head(reads).data) = 0 THEN Ok(fed)
    ELSE read_loop_overwrites(Tail(reads), Head(reads).data)

\* the loop taking a failed read for the end of the stream
RECURSIVE read_loop_tolerant(_, _)
read_loop_tolerant(reads, fed) ==
    IF reads = <<>> THEN Ok(fed)
    ELSE IF ~Head(reads).ok THEN Ok(fed)
    ELSE IF Len(Head(reads).data) = 0 THEN Ok(fed)
    ELSE read_loop_tolerant(Tail(reads), fed \o Head(reads).data)

\* the read loop of one match arm: `reader.read(&mut buf)?` returns the
\* error, n == 0 breaks, otherwise hasher.update(&buf[..n])
RECURSIVE read_loop(_, _)
read_loop(reads, fed) ==
    IF reads = <<>> THEN Ok(fed)
    ELSE IF ~Head(reads).ok THEN Err("io::Error")
    ELSE IF Len(Head(reads).data) = 0 THEN Ok(fed)
    ELSE read_loop(Tail(reads), fed \o Head(reads).data)

compute_hash_for_reader(reads, algorithm) ==
    LET fed == read_loop(reads, <<>>)
    IN  IF fed.ok THEN Ok(hex_encode(finalize(algorithm, fed.val)))
        ELSE Err(fed.err)

(***************************************************************************)
(* The files the user can pick, and file_ops.rs.  A path is the sequence   *)
(* of its components.                                                      *)
(***************************************************************************)

\* the file the user picks in the file dialog
ReadablePath == <<"dl", "a.iso">>

Paths == {ReadablePath}

FileContent(path) == IF path = ReadablePath THEN <<104, 105>> ELSE <<>>

ReadOk(bytes) == [ok |-> TRUE, data |-> bytes]

ReadErr == [ok |-> FALSE]

\* what the reads of an opened file can return: its content and then end of
\* stream, or an io::Error
ReadsOf(path) ==
    { IF FileContent(path) = <<>> THEN <<ReadOk(<<>>)>>
      ELSE <<ReadOk(FileContent(path)), ReadOk(<<>>)>>,
      <<ReadErr>> }

\* File::open(path)? ; compute_hash_for_reader(BufReader::new(f), algo)?
\* `opened` is whether File::open succeeds (the file may be gone or
\* protected by the time the task runs), `reads` what the reader returns
compute_file_hash(path, algo, opened, reads) ==
    IF ~opened THEN Err("io::Error")
    ELSE compute_hash_for_reader(reads, algo)

\* path.file_name().and_then(|s| s.to_str()).unwrap_or("file")
file_name_of(path) == IF path = <<>> THEN "file" ELSE path[Len(path)]

(***************************************************************************)
(* storage.rs.  The text of verifications.json is kept as what a JSON      *)
(* parser sees of it: the objects of the array it holds, and whether the   *)
(* array is whole (closed) or the text stops short or is not JSON at all.  *)
(* A JSON object carries the timestamp as whole seconds (ts_seconds).      *)
(***************************************************************************)

\* sub-second steps of DateTime<Utc> in one second
TicksPerSecond == 2

\* Serialize for VerificationRecord: chrono::serde::ts_seconds writes
\* dt.timestamp(), the whole seconds
to_json(rec) ==
    [id             |-> rec.id,
     file_name      |-> rec.file_name,
     file_path      |-> rec.file_path,
     algorithm      |-> rec.algorithm,
     computed_hash  |-> rec.computed_hash,
     reference_hash |-> rec.reference_hash,
     status         |-> rec.status,
     timestamp      |-> rec.timestamp \div TicksPerSecond]

\* Deserialize reading the seconds as if they were ticks
from_json_ticks(obj) ==
    [id             |-> obj.id,
     file_name      |-> obj.file_name,
     file_path      |-> obj.file_path,
     algorithm      |-> obj.algorithm,
     computed_hash  |-> obj.computed_hash,
     reference_hash |-> obj.reference_hash,
     status         |-> obj.status,
     timestamp      |-> obj.timestamp]

\* Deserialize for VerificationRecord: ts_seconds reads whole seconds
from_json(obj) ==
    [id             |-> obj.id,
     file_name      |-> obj.file_name,
     file_path      |-> obj.file_path,
     algorithm      |-> obj.algorithm,
     computed_hash  |-> obj.computed_hash,
     reference_hash |-> obj.reference_hash,
     status         |-> obj.status,
     timestamp      |-> obj.timestamp * TicksPerSecond]

\* serde_json::to_string_pretty(records)
to_string_pretty(records) ==
    [closed |-> TRUE, items |-> [i \in 1..Len(records) |-> to_json(records[i])]]

\* serde_json::from_str::<Vec<VerificationRecord>>(s)
from_str(text) ==
    IF text.closed THEN Ok([i \in 1..Len(text.items) |-> from_json(text.items[i])])
    ELSE Err("parse")

\* text that does not parse: an empty file, or bytes that are not JSON
Garbage == [closed |-> FALSE, items |-> <<>>]

NoFile == [exists |-> FALSE, text |-> Garbage]

FileWith(text) == [exists |-> TRUE, text |-> text]

\* load_all keeping what a cut-short text holds
load_all_lenient(file, read_ok) ==
    IF ~file.exists \/ ~read_ok THEN <<>>
    ELSE [i \in 1..Len(file.text.items) |-> from_json(file.text.items[i])]

\* load_all: no file, an unreadable file (read_ok false) and an unparsable
\* one all give the empty Vec
load_all(file, read_ok) ==
    IF ~file.exists THEN <<>>
    ELSE LET s      == IF read_ok THEN file.text ELSE Garbage
             parsed == from_str(s)
         IN  IF parsed.ok THEN parsed.val ELSE <<>>

\* the ways fs::write can go: File::create fails; write_all fails after
\* the truncation; all is written
WriteFates == {"create_failed", "write_failed", "written"}

\* fs::write(DB_FILE, s): File::create truncates, write_all writes.  When
\* create fails the file is as it was; when a write fails the file holds a
\* proper prefix of s, which does not parse (here all of s but the bracket
\* that closes the array)
fs_write(file, s, fate) ==
    CASE fate = "written"       -> [res |-> "ok", file |-> FileWith(s)]
      [] fate = "create_failed" -> [res |-> "err", file |-> file]
      [] fate = "write_failed"  ->
            [res |-> "err", file |-> FileWith([closed |-> FALSE, items |-> s.items])]

\* save_all opening the file to append instead of overwriting it
save_all_append(file, records, fate) ==
    LET s == to_string_pretty(records)
    IN  fs_write(file, [s EXCEPT !.items = file.text.items \o s.items], fate)

\* save_all(records): its result and the file it leaves
save_all(file, records, fate) == fs_write(file, to_string_pretty(records), fate)

(***************************************************************************)
(* gui.rs: VeriFileApp, its messages and the tasks update() starts.        *)
(***************************************************************************)

\* most file dialogs (ChooseFile and LoadHashFile tasks) open at once
MaxDialogs == 1

\* most digest computations StartVerify starts in one run of the program
MaxVerifications == 2

\* the algorithms the user picks in the pick list
PickedAlgorithms == {"Blake3", "Md5"}

\* the digests of the readable file, as the program computes them
KnownDigest(algo) ==
    compute_hash_for_reader(<<ReadOk(FileContent(ReadablePath)), ReadOk(<<>>)>>, algo).val

\* a digest in upper case between white space, as pasted from a web page
Pasted(hex) == <<" ">> \o [i \in 1..Len(hex) |-> to_ascii_uppercase(hex[i])] \o <<"\n">>

\* a digest of the right length whose last digit is not the file's
WrongDigest ==
    LET d == KnownDigest("Blake3")
    IN  [d EXCEPT ![Len(d)] = IF d[Len(d)] = "0" THEN "1" ELSE "0"]

\* what the user types or pastes into the text input
TypedTexts == {<<" ", "\t">>, Pasted(KnownDigest("Blake3"))}

\* the contents of the checksum files the user can load
HashFileTexts ==
    {WrongDigest \o <<" ", " ", "a", ".", "i", "s", "o", "\n">>,
     <<"s", "h", "o", "r", "t", " ", "a", "b", "c", "d">>}

MsgComputing == <<"Computing hash...">>

MsgSuccess == <<"Verification successful!">>

MsgFailed == <<"Verification failed - hash mismatch!">>

MsgInProgress == <<"In progress...">>

VARIABLES
    chosen_file,     \* Option<PathBuf>
    algorithm,
    paste_hash,      \* String
    status_message,  \* String, as the pieces format! joins
    current_step,
    is_verifying,
    last_result,     \* Option<VerificationRecord>
    past,            \* Vec<VerificationRecord>
    db,              \* the file verifications.json
    file_dialogs,    \* ChooseFile tasks whose dialog is open
    hash_dialogs,    \* LoadHashFile tasks whose dialog is open
    jobs,            \* StartVerify tasks computing: [n, path, algo, ref_hash]
    inbox,           \* finished tasks' VerifyComplete messages: [n, result]
    spawned,         \* StartVerify tasks started so far
    uuids,           \* Uuid::new_v4() values drawn so far
    clock,           \* readings of Utc::now() so far, each a tick later
    save_log,        \* the result of each save_all call, oldest first
    roundtrip,       \* the save/load/save trial of storage.rs (SpecStore)
    parse,           \* the checksum file last loaded (SpecHashFile)
    hashing          \* the stream handed to the digest computation (SpecHasher)

app == <<chosen_file, algorithm, paste_hash, status_message, current_step,
         is_verifying, last_result, past>>

tasks == <<file_dialogs, hash_dialogs, jobs, inbox, spawned>>

vars == <<app, tasks, db, uuids, clock, save_log, roundtrip, parse, hashing>>

\* a record an earlier run of the program wrote
OldRecord ==
    [id             |-> 0,
     file_name      |-> file_name_of(ReadablePath),
     file_path      |-> ReadablePath,
     algorithm      |-> "Md5",
     computed_hash  |-> KnownDigest("Md5"),
     reference_hash |-> None,
     status         |-> "Success",
     timestamp      |-> 0]

\* verifications.json when the program starts, as an earlier run's save_all
\* left it
InitialFiles == {FileWith(to_string_pretty(<<OldRecord>>))}

\* no trial of storage.rs is running
NoTrial ==
    [pc |-> "off", given |-> <<>>, loaded |-> <<>>, read_ok |-> TRUE,
     after_save |-> FALSE, before |-> NoFile]

\* no checksum file is being followed
NoParse ==
    [pc |-> "off", opt |-> None, out |-> None, before |-> <<>>, spawned |-> 0]

\* no stream is being followed
NoHashing ==
    [pc |-> "off", content |-> <<>>, reads |-> <<>>, algo |-> "Blake3",
     opened |-> TRUE, fed |-> Err("none"), out |-> Err("none")]

\* VeriFileApp::new
Init ==
    /\ db \in InitialFiles
    /\ past = load_all(db, TRUE)
    /\ chosen_file = None
    /\ algorithm = "Blake3"
    /\ paste_hash = <<>>
    /\ status_message = <<>>
    /\ current_step = "UploadFile"
    /\ is_verifying = FALSE
    /\ last_result = None
    /\ file_dialogs = 0
    /\ hash_dialogs = 0
    /\ jobs = {}
    /\ inbox = {}
    /\ spawned = 0
    /\ uuids = 0
    /\ clock = 0
    /\ save_log = <<>>
    /\ roundtrip = NoTrial
    /\ parse = NoParse
    /\ hashing = NoHashing

\* Message::ChooseFile: the task opens a file dialog
ChooseFile ==
    /\ file_dialogs + hash_dialogs < MaxDialogs
    /\ file_dialogs' = file_dialogs + 1
    /\ UNCHANGED <<app, hash_dialogs, jobs, inbox, spawned, db, uuids, clock, save_log, roundtrip, parse, hashing>>

\* Message::FileChosen(res), the dialog's answer
FileChosen(res) ==
    /\ file_dialogs > 0
    /\ file_dialogs' = file_dialogs - 1
    /\ IF res.some
       THEN /\ chosen_file' = res
            /\ current_step' = "UploadFile"
       ELSE UNCHANGED <<chosen_file, current_step>>
    /\ UNCHANGED <<algorithm, paste_hash, status_message, is_verifying, last_result,
                   past>>
    /\ UNCHANGED <<hash_dialogs, jobs, inbox, spawned, db, uuids, clock, save_log, roundtrip, parse, hashing>>

\* Message::AlgorithmSelected(a), from the side bar's pick list
AlgorithmSelected(a) ==
    /\ algorithm' = a
    /\ UNCHANGED <<chosen_file, paste_hash, status_message, current_step, is_verifying,
                   last_result, past>>
    /\ UNCHANGED <<tasks, db, uuids, clock, save_log, roundtrip, parse, hashing>>

\* ProceedToHash without the test of chosen_file
ProceedToHash_unchecked ==
    /\ current_step' = "UploadHash"
    /\ UNCHANGED <<chosen_file, algorithm, paste_hash, status_message, is_verifying,
                   last_result, past>>
    /\ UNCHANGED <<tasks, db, uuids, clock, save_log, roundtrip, parse, hashing>>

\* Message::ProceedToHash
ProceedToHash ==
    /\ current_step' = IF chosen_file.some THEN "UploadHash" ELSE current_step
    /\ UNCHANGED <<chosen_file, algorithm, paste_hash, status_message, is_verifying,
                   last_result, past>>
    /\ UNCHANGED <<tasks, db, uuids, clock, save_log, roundtrip, parse, hashing>>

\* Message::PasteHashChanged(s)
PasteHashChanged(s) ==
    /\ paste_hash' = s
    /\ UNCHANGED <<chosen_file, algorithm, status_message, current_step, is_verifying,
                   last_result, past>>
    /\ UNCHANGED <<tasks, db, uuids, clock, save_log, roundtrip, parse, hashing>>

\* Message::LoadHashFile: the task opens a file dialog and reads the file
LoadHashFile ==
    /\ file_dialogs + hash_dialogs < MaxDialogs
    /\ hash_dialogs' = hash_dialogs + 1
    /\ UNCHANGED <<app, file_dialogs, jobs, inbox, spawned, db, uuids, clock, save_log, roundtrip, parse, hashing>>

\* HashFileLoaded emptying the reference text when the file gives no
\* candidate
HashFileLoaded_clears(opt) ==
    /\ hash_dialogs > 0
    /\ hash_dialogs' = hash_dialogs - 1
    /\ paste_hash' =
          IF opt.some
          THEN LET h == parse_first_hash_from_text(opt.val)
               IN  IF h.some THEN h.val ELSE <<>>
          ELSE <<>>
    /\ UNCHANGED <<chosen_file, algorithm, status_message, current_step, is_verifying,
                   last_result, past>>
    /\ UNCHANGED <<file_dialogs, jobs, inbox, spawned, db, uuids, clock, save_log, roundtrip, hashing>>

\* Message::HashFileLoaded(opt): None when the dialog was cancelled or the
\* file could not be read
HashFileLoaded(opt) ==
    /\ hash_dialogs > 0
    /\ hash_dialogs' = hash_dialogs - 1
    /\ paste_hash' =
          IF opt.some
          THEN LET h == parse_first_hash_from_text(opt.val)
               IN  IF h.some THEN h.val ELSE paste_hash
          ELSE paste_hash
    /\ UNCHANGED <<chosen_file, algorithm, status_message, current_step, is_verifying,
                   last_result, past>>
    /\ UNCHANGED <<file_dialogs, jobs, inbox, spawned, db, uuids, clock, save_log, roundtrip, hashing>>

\* the reference tested with is_empty() alone, without trim()
ref_hash_of_untrimmed(text) == IF text = <<>> THEN None ELSE Some(text)

\* the reference StartVerify hands to the task
ref_hash_of(text) == IF trim(text) = <<>> THEN None ELSE Some(text)

\* Message::StartVerify
StartVerify ==
    /\ spawned < MaxVerifications
    /\ IF chosen_file.some
       THEN /\ status_message' = MsgComputing
            /\ current_step' = "Verifying"
            /\ is_verifying' = TRUE
            /\ spawned' = spawned + 1
            /\ jobs' = jobs \cup {[n        |-> spawned + 1,
                                   path     |-> chosen_file.val,
                                   algo     |-> algorithm,
                                   ref_hash |-> ref_hash_of(paste_hash)]}
       ELSE UNCHANGED <<status_message, current_step, is_verifying, spawned, jobs>>
    /\ UNCHANGED <<chosen_file, algorithm, paste_hash, last_result, past>>
    /\ UNCHANGED <<file_dialogs, hash_dialogs, inbox, db, uuids, clock, save_log, roundtrip, parse, hashing>>

\* outcome with the reference compared as typed: no trim, case kept
outcome_exact(ref_hash, hex) ==
    IF ref_hash.some
    THEN IF ref_hash.val = hex THEN "Success" ELSE "Failed"
    ELSE "Success"

\* outcome leaving a record without a reference in progress
outcome_in_progress(ref_hash, hex) ==
    IF ref_hash.some
    THEN IF eq_ignore_ascii_case(trim(ref_hash.val), hex) THEN "Success" ELSE "Failed"
    ELSE "InProgress"

\* the status the task gives the record
outcome(ref_hash, hex) ==
    IF ref_hash.some
    THEN IF eq_ignore_ascii_case(trim(ref_hash.val), hex) THEN "Success" ELSE "Failed"
    ELSE "Success"

\* the record built from the algorithm and the reference text as they are
\* when the computation ends
verify_task_live(job, computed, id, now) ==
    IF computed.ok
    THEN Ok([id             |-> id,
             file_name      |-> file_name_of(job.path),
             file_path      |-> job.path,
             algorithm      |-> algorithm,
             computed_hash  |-> computed.val,
             reference_hash |-> ref_hash_of(paste_hash),
             status         |-> outcome(ref_hash_of(paste_hash), computed.val),
             timestamp      |-> now])
    ELSE Err(<<"Hash compute error: ", computed.err>>)

\* the task's async block, once spawn_blocking has returned `computed`
verify_task(job, computed, id, now) ==
    IF computed.ok
    THEN Ok([id             |-> id,
             file_name      |-> file_name_of(job.path),
             file_path      |-> job.path,
             algorithm      |-> job.algo,
             computed_hash  |-> computed.val,
             reference_hash |-> job.ref_hash,
             status         |-> outcome(job.ref_hash, computed.val),
             timestamp      |-> now])
    ELSE Err(<<"Hash compute error: ", computed.err>>)

\* the task delivering its message and staying among the running tasks
TaskFinish_stays(job, opened, reads) ==
    /\ job \in jobs
    /\ LET computed == compute_file_hash(job.path, job.algo, opened, reads)
       IN  /\ inbox' = inbox \cup
                 {[n |-> job.n, result |-> verify_task(job, computed, uuids + 1, clock + 1)]}
           /\ uuids' = IF computed.ok THEN uuids + 1 ELSE uuids
           /\ clock' = IF computed.ok THEN clock + 1 ELSE clock
    /\ jobs' = jobs
    /\ UNCHANGED <<app, file_dialogs, hash_dialogs, spawned, db, save_log, roundtrip, parse, hashing>>

\* a StartVerify task runs to its end: the digest is computed off the
\* update loop, the record is built with a new id and the time of that
\* moment, and the result waits to be delivered as VerifyComplete
TaskFinish(job, opened, reads) ==
    /\ job \in jobs
    /\ LET computed == compute_file_hash(job.path, job.algo, opened, reads)
       IN  /\ inbox' = inbox \cup
                 {[n |-> job.n, result |-> verify_task(job, computed, uuids + 1, clock + 1)]}
           /\ uuids' = IF computed.ok THEN uuids + 1 ELSE uuids
           /\ clock' = IF computed.ok THEN clock + 1 ELSE clock
    /\ jobs' = jobs \ {job}
    /\ UNCHANGED <<app, file_dialogs, hash_dialogs, spawned, db, save_log, roundtrip, parse, hashing>>

\* Vec::push(rec) in place of insert(0, rec)
insert_back(v, rec) == Append(v, rec)

\* Vec::insert(0, rec)
insert_front(v, rec) == <<rec>> \o v

\* the status line of a completed record
status_line(status) ==
    CASE status = "Success"    -> MsgSuccess
      [] status = "Failed"     -> MsgFailed
      [] status = "InProgress" -> MsgInProgress

\* the Ok arm undoing the insertion when save_all fails
VerifyCompleteOk_rollback(rec, fate) ==
    /\ status_message' = status_line(rec.status)
    /\ last_result' = Some(rec)
    /\ past' = IF save_all(db, insert_front(past, rec), fate).res = "ok"
               THEN insert_front(past, rec) ELSE past
    /\ db' = save_all(db, insert_front(past, rec), fate).file
    /\ save_log' = Append(save_log, save_all(db, insert_front(past, rec), fate).res)

\* the Ok arm saving the history before it inserts the record
VerifyCompleteOk_saves_first(rec, fate) ==
    /\ status_message' = status_line(rec.status)
    /\ last_result' = Some(rec)
    /\ past' = insert_front(past, rec)
    /\ db' = save_all(db, past, fate).file
    /\ save_log' = Append(save_log, save_all(db, past, fate).res)

\* the Ok(rec) arm of VerifyComplete: the record is shown, inserted at the
\* front and the whole history saved, the Result of save_all being dropped
\* (`let _ =`)
VerifyCompleteOk(rec, fate) ==
    /\ status_message' = status_line(rec.status)
    /\ last_result' = Some(rec)
    /\ past' = insert_front(past, rec)
    /\ db' = save_all(db, past', fate).file
    /\ save_log' = Append(save_log, save_all(db, past', fate).res)

\* the Err arm with save_all called after the match, for both arms
VerifyCompleteErr_saves(e) ==
    /\ status_message' = <<"Error: ">> \o e
    /\ last_result' = None
    /\ past' = past
    /\ db' = save_all(db, past, "written").file
    /\ save_log' = Append(save_log, save_all(db, past, "written").res)

\* the Err arm leaving the displayed result as it is
VerifyCompleteErr_keeps(e) ==
    /\ status_message' = <<"Error: ">> \o e
    /\ UNCHANGED <<last_result, past, db, save_log>>

\* the Err(e) arm of VerifyComplete
VerifyCompleteErr(e) ==
    /\ status_message' = <<"Error: ">> \o e
    /\ last_result' = None
    /\ UNCHANGED <<past, db, save_log>>

\* VerifyComplete leaving the step as it finds it
VerifyComplete_in_place(m, fate) ==
    /\ m \in inbox
    /\ inbox' = inbox \ {m}
    /\ is_verifying' = FALSE
    /\ current_step' = current_step
    /\ IF m.result.ok THEN VerifyCompleteOk(m.result.val, fate)
                      ELSE VerifyCompleteErr(m.result.err)
    /\ UNCHANGED <<chosen_file, algorithm, paste_hash>>
    /\ UNCHANGED <<file_dialogs, hash_dialogs, jobs, spawned, uuids, clock, roundtrip, parse, hashing>>

\* Message::VerifyComplete(result), the message a finished task delivers
VerifyComplete(m, fate) ==
    /\ m \in inbox
    /\ inbox' = inbox \ {m}
    /\ is_verifying' = FALSE
    /\ current_step' = "Result"
    /\ IF m.result.ok THEN VerifyCompleteOk(m.result.val, fate)
                      ELSE VerifyCompleteErr(m.result.err)
    /\ UNCHANGED <<chosen_file, algorithm, paste_hash>>
    /\ UNCHANGED <<file_dialogs, hash_dialogs, jobs, spawned, uuids, clock, roundtrip, parse, hashing>>

\* ResetVerification dropping the tasks that run and their messages
ResetVerification_cancels ==
    /\ chosen_file' = None
    /\ paste_hash' = <<>>
    /\ status_message' = <<>>
    /\ current_step' = "UploadFile"
    /\ last_result' = None
    /\ jobs' = {}
    /\ inbox' = {}
    /\ UNCHANGED <<algorithm, is_verifying, past>>
    /\ UNCHANGED <<file_dialogs, hash_dialogs, spawned, db, uuids, clock, save_log, roundtrip, parse, hashing>>

\* ResetVerification putting the pick list back to the first algorithm
ResetVerification_defaults ==
    /\ chosen_file' = None
    /\ paste_hash' = <<>>
    /\ status_message' = <<>>
    /\ current_step' = "UploadFile"
    /\ last_result' = None
    /\ algorithm' = "Blake3"
    /\ UNCHANGED <<is_verifying, past>>
    /\ UNCHANGED <<tasks, db, uuids, clock, save_log, roundtrip, parse, hashing>>

\* Message::ResetVerification
ResetVerification ==
    /\ chosen_file' = None
    /\ paste_hash' = <<>>
    /\ status_message' = <<>>
    /\ current_step' = "UploadFile"
    /\ last_result' = None
    /\ UNCHANGED <<algorithm, is_verifying, past>>
    /\ UNCHANGED <<tasks, db, uuids, clock, save_log, roundtrip, parse, hashing>>

\* view(): the messages the widgets on screen can send, those of the side
\* bar and of the page of the current step; the ProceedToHash button is
\* wired only when a file is chosen, and the Verifying page has no widget
\* that sends a message
view ==
    {"AlgorithmSelected"} \cup
    CASE current_step = "UploadFile" ->
            {"ChooseFile"} \cup (IF chosen_file.some THEN {"ProceedToHash"} ELSE {})
      [] current_step = "UploadHash" ->
            {"PasteHashChanged", "LoadHashFile", "ResetVerification", "StartVerify"}
      [] current_step = "Verifying"  -> {}
      [] current_step = "Result"     -> {"ResetVerification"}

\* the running program: update() receives the messages the widgets on
\* screen send and the messages the tasks it started deliver
Next ==
    \/ "ChooseFile" \in view /\ ChooseFile
    \/ \E res \in {None} \cup {Some(p) : p \in Paths} : FileChosen(res)
    \/ \E a \in PickedAlgorithms : "AlgorithmSelected" \in view /\ AlgorithmSelected(a)
    \/ "ProceedToHash" \in view /\ ProceedToHash
    \/ \E s \in TypedTexts : "PasteHashChanged" \in view /\ PasteHashChanged(s)
    \/ "LoadHashFile" \in view /\ LoadHashFile
    \/ \E opt \in {None} \cup {Some(t) : t \in HashFileTexts} :
          HashFileLoaded(opt) /\ UNCHANGED parse
    \/ "StartVerify" \in view /\ StartVerify
    \/ \E job \in jobs, opened \in BOOLEAN :
          \E reads \in ReadsOf(job.path) : TaskFinish(job, opened, reads)
    \/ \E m \in inbox, fate \in WriteFates : VerifyComplete(m, fate)
    \/ "ResetVerification" \in view /\ ResetVerification

Spec == Init /\ [][Next]_vars

\* the running program on a disk that takes every write, the picked file
\* being read to its end when it opens
NextLive ==
    \/ "ChooseFile" \in view /\ ChooseFile
    \/ \E res \in {None} \cup {Some(p) : p \in Paths} : FileChosen(res)
    \/ \E a \in PickedAlgorithms : "AlgorithmSelected" \in view /\ AlgorithmSelected(a)
    \/ "ProceedToHash" \in view /\ ProceedToHash
    \/ \E s \in TypedTexts : "PasteHashChanged" \in view /\ PasteHashChanged(s)
    \/ "LoadHashFile" \in view /\ LoadHashFile
    \/ \E opt \in {None} \cup {Some(t) : t \in HashFileTexts} :
          HashFileLoaded(opt) /\ UNCHANGED parse
    \/ "StartVerify" \in view /\ StartVerify
    \/ \E job \in jobs, opened \in BOOLEAN :
          TaskFinish(job, opened, <<ReadOk(FileContent(job.path)), ReadOk(<<>>)>>)
    \/ \E m \in inbox : VerifyComplete(m, "written")
    \/ "ResetVerification" \in view /\ ResetVerification

\* the scheduling: the runtime runs every task it was handed to its end
\* (the blocking pool computes the digest of a file, which ends) and hands
\* every finished task's message to update()
SpecLive ==
    /\ Init
    /\ [][NextLive]_vars
    /\ \A n \in 1..MaxVerifications :
          WF_vars(\E job \in jobs, opened \in BOOLEAN :
                     job.n = n /\ TaskFinish(job, opened,
                                             <<ReadOk(FileContent(job.path)), ReadOk(<<>>)>>))
    /\ \A n \in 1..MaxVerifications :
          WF_vars(\E m \in inbox : m.n = n /\ VerifyComplete(m, "written"))

(***************************************************************************)
(* update() on its own: any message in any step, as a caller of update()   *)
(* that is not the view can send them.  The file is written without        *)
(* failure and the picked file is read to its end or fails to open.        *)
(***************************************************************************)

NextUpdate ==
    \/ ChooseFile
    \/ \E res \in {None} \cup {Some(p) : p \in Paths} : FileChosen(res)
    \/ \E a \in PickedAlgorithms : AlgorithmSelected(a)
    \/ ProceedToHash
    \/ \E s \in TypedTexts : PasteHashChanged(s)
    \/ LoadHashFile
    \/ \E opt \in {None} \cup {Some(t) : t \in HashFileTexts} :
          HashFileLoaded(opt) /\ UNCHANGED parse
    \/ StartVerify
    \/ \E job \in jobs, opened \in BOOLEAN :
          TaskFinish(job, opened, <<ReadOk(FileContent(job.path)), ReadOk(<<>>)>>)
    \/ \E m \in inbox : VerifyComplete(m, "written")
    \/ ResetVerification

SpecUpdate == Init /\ [][NextUpdate]_vars

(***************************************************************************)
(* The checksum file: the user is on the UploadHash page with a file       *)
(* chosen and the file dialog of LoadHashFile open; the file picked is     *)
(* read and parsed, and the verification follows.  `parse` keeps what      *)
(* HashFileLoaded was given, what the parser made of it, and the reference *)
(* text and the number of verifications started before it.                 *)
(***************************************************************************)

\* most lines in a checksum file
MaxLines == 3

\* sixteen hex digits, the shortest token the parser takes for a digest
Hex16 == [i \in 1..16 |-> HexDigits[i]]

\* the same digits in the opposite order, another digest
Rev16 == [i \in 1..16 |-> HexDigits[17 - i]]

\* the lines of the checksum files: empty; white space only; one hex token
\* after white space; one token that is no digest; `name  DIGEST` in upper
\* case; several words; a name and fifteen hex digits; `digest *name`; a
\* token of seventeen characters that is not hex followed by two digests
FileLines ==
    {<<>>,
     <<" ", "\t">>,
     <<" ">> \o Hex16,
     <<"n", "/", "a">>,
     <<"a", ".", "i", "s", "o", " ", " ">> \o [i \in 1..16 |-> to_ascii_uppercase(Hex16[i])],
     <<"s", "h", "a", " ", "o", "f", ":">>,
     <<"i", "s", "o", "\t">> \o SubSeq(Hex16, 1, 15) \o <<"\r">>,
     Rev16 \o <<" ", "*", "a", ".", "i", "s", "o">>,
     <<"x">> \o Hex16 \o <<" ">> \o Rev16 \o <<" ">> \o Hex16}

\* the lines, each ended by "\n"
RECURSIVE JoinLines(_)
JoinLines(ls) ==
    IF ls = <<>> THEN <<>> ELSE Head(ls) \o <<"\n">> \o JoinLines(Tail(ls))

\* the texts read_to_string can return for the picked checksum file
ParserTexts ==
    {JoinLines(ls) : ls \in UNION {[1..n -> FileLines] : n \in 0..MaxLines}}

InitHashFile ==
    /\ db \in InitialFiles
    /\ past = load_all(db, TRUE)
    /\ chosen_file = Some(ReadablePath)
    /\ algorithm = "Blake3"
    /\ paste_hash \in {<<>>} \cup TypedTexts
    /\ status_message = <<>>
    /\ current_step = "UploadHash"
    /\ is_verifying = FALSE
    /\ last_result = None
    /\ file_dialogs = 0
    /\ hash_dialogs = 1
    /\ jobs = {}
    /\ inbox = {}
    /\ spawned = 0
    /\ uuids = 0
    /\ clock = 0
    /\ save_log = <<>>
    /\ roundtrip = NoTrial
    /\ parse = [NoParse EXCEPT !.pc = "open"]
    /\ hashing = NoHashing

\* HashFileLoaded(opt), followed
LoadedHashFile(opt) ==
    /\ HashFileLoaded(opt)
    /\ parse' = [pc      |-> "loaded",
                 opt     |-> opt,
                 out     |-> IF opt.some THEN parse_first_hash_from_text(opt.val) ELSE None,
                 before  |-> paste_hash,
                 spawned |-> spawned]

NextHashFile ==
    \/ \E opt \in {None} \cup {Some(t) : t \in ParserTexts} : LoadedHashFile(opt)
    \/ "StartVerify" \in view /\ StartVerify
    \/ \E job \in jobs, opened \in BOOLEAN :
          TaskFinish(job, opened, <<ReadOk(FileContent(job.path)), ReadOk(<<>>)>>)
    \/ \E m \in inbox : VerifyComplete(m, "written")

SpecHashFile == InitHashFile /\ [][NextHashFile]_vars

(***************************************************************************)
(* The digest computation on its own: a file of some content is opened     *)
(* (or fails to open) and read through a reader that hands the content     *)
(* over in reads of any lengths the buffer allows, then reports the end of *)
(* the stream with a read of length 0, or fails at some read.  `hashing`   *)
(* keeps the stream, the bytes the hasher was fed and the result.          *)
(***************************************************************************)

\* most bytes in a file
MaxContent == 3

\* the bytes files are made of
Bytes == {7, 200}

Contents == UNION {[1..n -> Bytes] : n \in 0..MaxContent}

\* let mut buf = [0u8; 64 * 1024]: the most bytes one read returns
BufLen == 64 * 1024

\* the ways a reader splits the content into reads of 1 to BufLen bytes
RECURSIVE Chunkings(_)
Chunkings(c) ==
    IF c = <<>> THEN {<<>>}
    ELSE UNION {{<<SubSeq(c, 1, k)>> \o rest : rest \in Chunkings(SubSeq(c, k + 1, Len(c)))} :
                   k \in 1..(IF Len(c) < BufLen THEN Len(c) ELSE BufLen)}

\* what a reader returns after it has reported the end of the stream, were
\* it read again: nothing, more bytes, an error
AfterEnd == {<<>>, <<ReadOk(<<9>>)>>, <<ReadErr>>}

\* the streams over the content: all of it in some chunking and then the
\* end of the stream; or a part of it and then a read that fails
Streams(c) ==
    LET asReads(chunks) == [i \in 1..Len(chunks) |-> ReadOk(chunks[i])]
    IN  UNION {{asReads(ch) \o <<ReadOk(<<>>)>> \o after : after \in AfterEnd}
               \cup {asReads(SubSeq(ch, 1, k)) \o <<ReadErr>> : k \in 0..Len(ch)} :
               ch \in Chunkings(c)}

InitHasher ==
    /\ db \in InitialFiles
    /\ past = load_all(db, TRUE)
    /\ chosen_file = None
    /\ algorithm = "Blake3"
    /\ paste_hash = <<>>
    /\ status_message = <<>>
    /\ current_step = "UploadFile"
    /\ is_verifying = FALSE
    /\ last_result = None
    /\ file_dialogs = 0
    /\ hash_dialogs = 0
    /\ jobs = {}
    /\ inbox = {}
    /\ spawned = 0
    /\ uuids = 0
    /\ clock = 0
    /\ save_log = <<>>
    /\ roundtrip = NoTrial
    /\ parse = NoParse
    /\ \E c \in Contents, algo \in Algorithm, opened \in BOOLEAN :
          \E reads \in Streams(c) :
             hashing = [NoHashing EXCEPT !.pc = "given", !.content = c, !.reads = reads,
                                         !.algo = algo, !.opened = opened]

\* compute_file_hash(path, algo) on the stream
HashStream ==
    /\ hashing.pc = "given"
    /\ hashing' = [hashing EXCEPT
                      !.pc  = "done",
                      !.fed = IF hashing.opened THEN read_loop(hashing.reads, <<>>)
                                                ELSE Err("io::Error"),
                      !.out = compute_file_hash(ReadablePath, hashing.algo,
                                                hashing.opened, hashing.reads)]
    /\ UNCHANGED <<app, tasks, db, uuids, clock, save_log, roundtrip, parse>>

NextHasher == HashStream

SpecHasher == InitHasher /\ [][NextHasher]_vars

(***************************************************************************)
(* storage.rs on its own: a caller hands a sequence of records to          *)
(* save_all, reads it back with load_all and saves what it read, as the    *)
(* round trip saveAll(load()) does.                                        *)
(***************************************************************************)

\* longest sequence handed to save_all in a trial
MaxStoreLen == 2

\* records with and without a reference, one created between two seconds
StoreRecords ==
    {[OldRecord EXCEPT !.id = 7, !.timestamp = TicksPerSecond + 1],
     [OldRecord EXCEPT !.id = 8, !.algorithm = "Blake3",
                       !.computed_hash = KnownDigest("Blake3"),
                       !.reference_hash = Some(WrongDigest),
                       !.status = "Failed", !.timestamp = 2 * TicksPerSecond]}

StoreSequences ==
    UNION {[1..n -> StoreRecords] : n \in 0..MaxStoreLen}

\* the file before the trial: absent, not JSON, cut short, or a snapshot
StoreFiles ==
    {NoFile, FileWith(Garbage),
     FileWith([closed |-> FALSE, items |-> to_string_pretty(<<OldRecord>>).items]),
     FileWith(to_string_pretty(<<OldRecord>>))}

InitStore ==
    /\ db \in StoreFiles
    /\ \E given \in StoreSequences : roundtrip = [NoTrial EXCEPT !.pc = "given", !.given = given]
    /\ past = <<>>
    /\ chosen_file = None
    /\ algorithm = "Blake3"
    /\ paste_hash = <<>>
    /\ status_message = <<>>
    /\ current_step = "UploadFile"
    /\ is_verifying = FALSE
    /\ last_result = None
    /\ file_dialogs = 0
    /\ hash_dialogs = 0
    /\ jobs = {}
    /\ inbox = {}
    /\ spawned = 0
    /\ uuids = 0
    /\ clock = 0
    /\ save_log = <<>>
    /\ parse = NoParse
    /\ hashing = NoHashing

\* save_all(&given)
StoreSave(fate) ==
    /\ roundtrip.pc = "given"
    /\ db' = save_all(db, roundtrip.given, fate).file
    /\ save_log' = Append(save_log, save_all(db, roundtrip.given, fate).res)
    /\ roundtrip' = [roundtrip EXCEPT !.pc = "saved"]
    /\ UNCHANGED <<app, tasks, uuids, clock, parse, hashing>>

\* load_all(), before any save or after the first
StoreLoad(read_ok) ==
    /\ roundtrip.pc \in {"given", "saved"}
    /\ roundtrip' = [roundtrip EXCEPT !.pc = "loaded",
                                      !.loaded = load_all(db, read_ok),
                                      !.read_ok = read_ok,
                                      !.after_save = (roundtrip.pc = "saved"),
                                      !.before = db]
    /\ UNCHANGED <<app, tasks, db, uuids, clock, save_log, parse, hashing>>

\* save_all(&loaded)
StoreResave(fate) ==
    /\ roundtrip.pc = "loaded"
    /\ db' = save_all(db, roundtrip.loaded, fate).file
    /\ save_log' = Append(save_log, save_all(db, roundtrip.loaded, fate).res)
    /\ roundtrip' = [roundtrip EXCEPT !.pc = "resaved"]
    /\ UNCHANGED <<app, tasks, uuids, clock, parse, hashing>>

NextStore ==
    \/ \E fate \in WriteFates : StoreSave(fate)
    \/ \E read_ok \in BOOLEAN : StoreLoad(read_ok)
    \/ \E fate \in WriteFates : StoreResave(fate)

SpecStore == InitStore /\ [][NextStore]_vars
(***************************************************************************)
(* Properties.                                                             *)
(***************************************************************************)

Last(s) == s[Len(s)]

\* the VerifyComplete messages waiting that carry a record, and an error
OkMessages == {m \in inbox : m.result.ok}

ErrMessages == {m \in inbox : ~m.result.ok}

\* this step is update() handling the message m
Delivered(m) == m \in inbox /\ inbox' = inbox \ {m}

\* every record a verification of this run produced and that still exists
ProducedRecords ==
    {m.result.val : m \in OkMessages}
    \cup {past[i] : i \in {j \in 1..Len(past) : past[j].id > 0}}
    \cup (IF last_result.some THEN {last_result.val} ELSE {})

\* the reference, trimmed, is the computed hash but for ASCII case
ReferenceMatches(r) ==
    LET t == trim(r.reference_hash.val)
    IN  /\ Len(t) = Len(r.computed_hash)
        /\ \A i \in 1..Len(t) :
              to_ascii_lowercase(t[i]) = to_ascii_lowercase(r.computed_hash[i])

\* C1: every record a verification produces has status Success when it has
\* no reference; with a reference it has status Success exactly when the
\* trimmed reference equals the computed hash ignoring ASCII case, and
\* Failed otherwise; no record has another status.
C1_OutcomePolicy ==
    \A r \in ProducedRecords :
        /\ r.status \in {"Success", "Failed"}
        /\ ~r.reference_hash.some => r.status = "Success"
        /\ r.reference_hash.some => (r.status = "Success" <=> ReferenceMatches(r))

\* a reference that differs from the digest as text was judged equal, and
\* another reference was judged different
C1_Witness ==
    /\ \E r \in ProducedRecords :
          /\ r.reference_hash.some
          /\ r.reference_hash.val # r.computed_hash
          /\ r.status = "Success"
    /\ \E r \in ProducedRecords : r.reference_hash.some /\ r.status = "Failed"

\* C2: when VerifyComplete carries an error, the history and the file are
\* left as they were, save_all is not called, last_result is cleared and
\* the status line shows the error.
C2_ErrorLeavesNoRecord ==
    [][\A m \in ErrMessages :
          Delivered(m) =>
             /\ past' = past
             /\ db' = db
             /\ save_log' = save_log
             /\ last_result' = None
             /\ status_message' = <<"Error: ">> \o m.result.err]_vars

\* an error was delivered after a record had been shown and saved
C2_Witness ==
    /\ Len(status_message) > 0
    /\ status_message[1] = "Error: "
    /\ last_result = None
    /\ current_step = "Result"
    /\ \E i \in 1..Len(past) : past[i].id > 0
    /\ Len(save_log) = 1

\* C3: every change of the in-memory history inserts exactly one record at
\* index 0: the history before is the history after without its first
\* record.
C3_AppendOnlyAtFront ==
    [][past' # past => (Len(past') = Len(past) + 1 /\ Tail(past') = past)]_vars

\* two records were inserted in front of the loaded one
C3_Witness ==
    /\ Len(past) = 3
    /\ past[3] = OldRecord
    /\ past[1].id > 0
    /\ past[2].id > 0

\* the JSON object is the record, its timestamp in whole seconds
SameAsStored(obj, rec) ==
    /\ obj.id = rec.id
    /\ obj.file_name = rec.file_name
    /\ obj.file_path = rec.file_path
    /\ obj.algorithm = rec.algorithm
    /\ obj.computed_hash = rec.computed_hash
    /\ obj.reference_hash = rec.reference_hash
    /\ obj.status = rec.status
    /\ obj.timestamp * TicksPerSecond <= rec.timestamp
    /\ rec.timestamp < (obj.timestamp + 1) * TicksPerSecond

\* the file is a whole snapshot of the records, in their order
HoldsExactly(file, records) ==
    /\ file.exists
    /\ file.text.closed
    /\ Len(file.text.items) = Len(records)
    /\ \A i \in 1..Len(records) : SameAsStored(file.text.items[i], records[i])

\* C4: handling a VerifyComplete that carries a record inserts the record
\* at the front of the history and calls save_all once; and whenever the
\* last save_all succeeded the file holds exactly the in-memory history,
\* records of earlier failed writes included.
C4_SavedWholeHistory ==
    /\ [][\A m \in OkMessages :
             Delivered(m) =>
                /\ past' = <<m.result.val>> \o past
                /\ Len(save_log') = Len(save_log) + 1]_vars
    /\ []((save_log # <<>> /\ Last(save_log) = "ok") => HoldsExactly(db, past))

\* a write failed, the next one succeeded, and the file holds both records
C4_Witness ==
    /\ save_log = <<"err", "ok">>
    /\ Len(past) >= 2
    /\ HoldsExactly(db, past)

\* C5: when VerifyComplete carries a record and save_all fails, the record
\* stays at index 0 in front of the former history, last_result is the
\* record and the step is Result.
C5_NoRollback ==
    [][\A m \in OkMessages :
          (Delivered(m) /\ Last(save_log') = "err") =>
             /\ past' = <<m.result.val>> \o past
             /\ last_result' = Some(m.result.val)
             /\ current_step' = "Result"]_vars

\* a write has failed and the record is shown and first in the history
C5_Witness ==
    /\ save_log # <<>>
    /\ Last(save_log) = "err"
    /\ current_step = "Result"
    /\ last_result.some
    /\ past # <<>>
    /\ past[1] = last_result.val

\* C6: a failed save_all is reported: what the application shows after a
\* failed write differs from what it shows after a successful one.
C6_SaveFailureReported ==
    [][\A m \in OkMessages :
          (Delivered(m) /\ Last(save_log') = "err") =>
             app' # <<chosen_file, algorithm, paste_hash,
                      status_line(m.result.val.status), "Result", FALSE,
                      Some(m.result.val), <<m.result.val>> \o past>>]_vars

\* C7: save_all replaces the file as one atomic unit: after any step the
\* file is as it was or is the whole snapshot of the new history.
C7_AtomicOverwrite ==
    [][db' = db \/ HoldsExactly(db', past')]_vars

\* C8: load_all never fails: it returns the empty sequence when there is no
\* file, when the file cannot be read and when it does not parse;
\* otherwise it returns the stored records in the stored order.
C8_LoadNeverFails ==
    roundtrip.pc = "loaded" =>
       IF db.exists /\ roundtrip.read_ok /\ db.text.closed
       THEN HoldsExactly(db, roundtrip.loaded)
       ELSE roundtrip.loaded = <<>>

\* a file cut short after its objects was loaded as the empty sequence.
C8_Witness ==
    /\ roundtrip.pc = "loaded"
    /\ roundtrip.read_ok
    /\ db.exists
    /\ ~db.text.closed
    /\ db.text.items # <<>>
    /\ roundtrip.loaded = <<>>

\* the record but for the part of its timestamp below a second
SameToTheSecond(a, b) ==
    /\ [a EXCEPT !.timestamp = 0] = [b EXCEPT !.timestamp = 0]
    /\ a.timestamp \div TicksPerSecond = b.timestamp \div TicksPerSecond

\* C9: load_all after a successful save_all returns as many records as
\* were saved, in the same order, every field equal and the timestamp equal
\* to the second; saving what was loaded leaves the file unchanged.
C9_RoundTrip ==
    (roundtrip.after_save /\ save_log[1] = "ok" /\ roundtrip.read_ok) =>
       /\ roundtrip.pc \in {"loaded", "resaved"} =>
             /\ Len(roundtrip.loaded) = Len(roundtrip.given)
             /\ \A i \in 1..Len(roundtrip.given) :
                   SameToTheSecond(roundtrip.loaded[i], roundtrip.given[i])
       /\ (roundtrip.pc = "resaved" /\ Last(save_log) = "ok") => db = roundtrip.before

\* two records, one created between two seconds, went through save_all,
\* load_all and save_all again
C9_Witness ==
    /\ roundtrip.pc = "resaved"
    /\ roundtrip.after_save
    /\ roundtrip.read_ok
    /\ save_log = <<"ok", "ok">>
    /\ Len(roundtrip.given) = 2
    /\ \E i \in 1..2 : roundtrip.given[i].timestamp % TicksPerSecond # 0
    /\ roundtrip.loaded # roundtrip.given

\* C10: no record in the file has status InProgress: every record save_all
\* wrote has status Success or Failed.
C10_NoInProgressPersisted ==
    db.exists => \A i \in 1..Len(db.text.items) :
                    db.text.items[i].status \in {"Success", "Failed"}

\* the file holds a Failed and a Success record of this run
C10_Witness ==
    /\ db.exists
    /\ db.text.closed
    /\ \E i \in 1..Len(db.text.items) :
          db.text.items[i].id > 0 /\ db.text.items[i].status = "Failed"
    /\ \E i \in 1..Len(db.text.items) :
          db.text.items[i].id > 0 /\ db.text.items[i].status = "Success"

\* the verification StartVerify started n-th is computing, or its message
\* waits to be delivered
Computing(n) == \E j \in jobs : j.n = n

Waiting(n) == \E m \in inbox : m.n = n

\* the n-th verification was started and its message has been handled
Completed(n) == n <= spawned /\ ~Computing(n) /\ ~Waiting(n)

\* C11: every verification StartVerify starts is eventually completed, and
\* handling its VerifyComplete message leaves the step Result, with a
\* record or an error, whatever the step was.
C11_EventuallyResult ==
    /\ \A n \in 1..MaxVerifications : Computing(n) ~> Completed(n)
    /\ [][\A m \in inbox : Delivered(m) => current_step' = "Result"]_vars

\* two verifications were completed, one with a record and the other with
\* an error, and the step is Result
C11_Witness ==
    /\ spawned = 2
    /\ Completed(1)
    /\ Completed(2)
    /\ current_step = "Result"
    /\ Len(save_log) = 1
    /\ status_message[1] = "Error: "

\* the VerifyComplete messages of the n-th verification waiting
MessagesOf(n) == {m \in inbox : m.n = n}

\* C12: each computation StartVerify starts delivers exactly one
\* VerifyComplete message: while it computes none waits, when it ends one
\* waits, once handled none comes again; and the message carries a record
\* or an error string, never both.
C12_OneCompletion ==
    /\ [](\A n \in 1..spawned :
             /\ Cardinality(MessagesOf(n)) <= 1
             /\ Computing(n) => MessagesOf(n) = {})
    /\ [](\A m \in inbox :
             IF m.result.ok THEN DOMAIN m.result = {"ok", "val"}
                            ELSE DOMAIN m.result = {"ok", "err"})
    /\ [][\A j \in jobs : j \notin jobs' => Cardinality({m \in inbox' : m.n = j.n}) = 1]_vars
    /\ [][\A n \in 1..spawned : Completed(n) => Completed(n)']_vars

\* two computations have ended, one with a record and one with an error,
\* and the message of each waits
C12_Witness ==
    /\ jobs = {}
    /\ \E m1 \in inbox, m2 \in inbox :
          /\ m1.n # m2.n
          /\ m1.result.ok
          /\ ~m2.result.ok
          /\ Cardinality(inbox) = 2

\* C13: at most one verification is outstanding at a time: while a digest
\* is being computed no second computation is started.
C13_SingleOutstanding == Cardinality(jobs) <= 1

\* the record with this id is in the history and in the file
Kept(i) ==
    /\ \E k \in 1..Len(past) : past[k].id = i
    /\ db.exists
    /\ \E k \in 1..Len(db.text.items) : db.text.items[k].id = i

\* C14: nothing cancels a computation: in every step a running computation
\* keeps running or ends with its message, and a message waits until it is
\* handled; a computation that succeeds has its record inserted at the
\* front of the history and saved, and so every record computed is
\* eventually in the history and in the file, whatever was reset meanwhile.
C14_NoCancellation ==
    /\ [][\A j \in jobs : j \in jobs' \/ (\E m \in inbox' : m.n = j.n)]_vars
    /\ [][\A m \in inbox :
             \/ m \in inbox'
             \/ /\ Delivered(m)
                /\ m.result.ok =>
                      /\ past' = <<m.result.val>> \o past
                      /\ Len(save_log') = Len(save_log) + 1]_vars
    /\ \A i \in 1..MaxVerifications :
          (\E m \in OkMessages : m.result.val.id = i) ~> Kept(i)

\* the only verification started was handled after a reset had cleared the
\* chosen file: its record is shown, first in the history and in the file
C14_Witness ==
    /\ spawned = 1
    /\ chosen_file = None
    /\ current_step = "Result"
    /\ last_result.some
    /\ past # <<>>
    /\ past[1] = last_result.val
    /\ Kept(last_result.val.id)

\* C15: ResetVerification is accepted in every step; it sets the step to
\* UploadFile and clears the chosen file, the reference text, the status
\* message and the displayed result, and leaves the history, the file and
\* the selected algorithm as they were.
C15_ResetFrame ==
    /\ [](ENABLED ResetVerification)
    /\ [][ResetVerification =>
             /\ current_step' = "UploadFile"
             /\ chosen_file' = None
             /\ paste_hash' = <<>>
             /\ status_message' = <<>>
             /\ last_result' = None
             /\ past' = past
             /\ db' = db
             /\ algorithm' = algorithm]_vars

\* a reset was handled while the second verification was computing: the
\* page is cleared, the first record is still in the history and the file,
\* and the algorithm is the one picked
C15_Witness ==
    /\ current_step = "UploadFile"
    /\ chosen_file = None
    /\ paste_hash = <<>>
    /\ status_message = <<>>
    /\ last_result = None
    /\ is_verifying
    /\ jobs # {}
    /\ algorithm = "Md5"
    /\ Len(past) = 2
    /\ HoldsExactly(db, past)

\* C16: the step becomes UploadHash only with a file chosen: ProceedToHash
\* with no chosen file changes nothing, every step into UploadHash starts
\* with a file chosen and keeps it, and whenever the step is UploadHash or
\* Verifying a file is chosen.
C16_ProceedNeedsFile ==
    /\ [][(ProceedToHash /\ ~chosen_file.some) => vars' = vars]_vars
    /\ [][(current_step # "UploadHash" /\ current_step' = "UploadHash") =>
             (chosen_file.some /\ chosen_file' = chosen_file)]_vars
    /\ [](current_step \in {"UploadHash", "Verifying"} => chosen_file.some)

\* after a verification and a reset no file is chosen on the UploadFile
\* page, where ProceedToHash leaves everything as it is
C16_Witness ==
    /\ current_step = "UploadFile"
    /\ ~chosen_file.some
    /\ spawned >= 1
    /\ ENABLED ProceedToHash

\* the text is empty or holds white space only
Blank(text) == \A i \in 1..Len(text) : text[i] \in WhiteSpace

\* C17: the verification StartVerify starts has no reference exactly when
\* the reference text is empty or white space at that moment, and the text
\* as it is otherwise; the record built carries that reference, and with
\* no reference its status is Success.
C17_BlankIsNoReference ==
    /\ [][\A j \in jobs' \ jobs :
             /\ ~j.ref_hash.some <=> Blank(paste_hash)
             /\ j.ref_hash.some => j.ref_hash.val = paste_hash]_vars
    /\ [][\A j \in jobs \ jobs' : \A m \in inbox' \ inbox :
             m.result.ok =>
                /\ m.result.val.reference_hash = j.ref_hash
                /\ ~j.ref_hash.some => m.result.val.status = "Success"]_vars

\* the only verification was started with white space typed as the
\* reference: its record has no reference and status Success
C17_Witness ==
    /\ spawned = 1
    /\ current_step = "Verifying"
    /\ paste_hash = <<" ", "\t">>
    /\ \E m \in OkMessages :
          /\ ~m.result.val.reference_hash.some
          /\ m.result.val.status = "Success"

\* the checksum file loaded gave no candidate, or could not be read
Miss == parse.pc = "loaded" /\ ~parse.out.some

\* this step handles a HashFileLoaded that gives no candidate
MissStep == parse.pc = "open" /\ parse'.pc = "loaded" /\ ~parse'.out.some

\* the verifications started after the checksum file was loaded
JobsAfterLoad == {j \in jobs : j.n > parse.spawned}

RecordsAfterLoad == {m.result.val : m \in {x \in OkMessages : x.n > parse.spawned}}

\* C18 as stated: a checksum file that gives no candidate leaves the step
\* and the status message as they were, and the verification that follows
\* has no reference: its record has no reference_hash and status Success.
C18_MissMeansNoReference ==
    /\ [][MissStep => (current_step' = current_step /\ status_message' = status_message)]_vars
    /\ [](Miss => /\ \A j \in JobsAfterLoad : ~j.ref_hash.some
                  /\ \A r \in RecordsAfterLoad :
                        ~r.reference_hash.some /\ r.status = "Success")

\* the reference a verification takes from the text that stood before the load
KeptReference == IF Blank(parse.before) THEN None ELSE Some(parse.before)

\* C18 amended: a checksum file that gives no candidate leaves the step,
\* the status message and the reference text as they were, and the
\* verification that follows uses the text that was there before: it has
\* no reference, and status Success, exactly when that text is blank.
C18_MissKeepsReference ==
    /\ [][MissStep => /\ current_step' = current_step
                      /\ status_message' = status_message
                      /\ paste_hash' = paste_hash]_vars
    /\ [](Miss => /\ \A j \in JobsAfterLoad : j.ref_hash = KeptReference
                  /\ \A r \in RecordsAfterLoad :
                        /\ r.reference_hash = KeptReference
                        /\ ~r.reference_hash.some => r.status = "Success")

\* a file with text but no candidate was loaded over a typed reference, and
\* the verification started afterwards compared with the typed reference
C18_Witness ==
    /\ Miss
    /\ parse.opt.some
    /\ ~Blank(parse.before)
    /\ \E r \in RecordsAfterLoad : r.reference_hash = Some(parse.before)

\* the text given to the parser, line by line
GivenLines == lines(parse.opt.val)

\* the lines that are not blank, and the first of them
NonBlank == {i \in 1..Len(GivenLines) : ~Blank(GivenLines[i])}

FirstNonBlank == CHOOSE i \in NonBlank : \A j \in NonBlank : i <= j

\* a token the parser takes for a digest: hex digits only, 16 or more
Candidate(tok) ==
    /\ Len(tok) >= 16
    /\ \A i \in 1..Len(tok) : is_ascii_hexdigit(tok[i])

\* what a line gives on its own: its only token; else its first candidate
Yield(l) ==
    LET toks  == split_whitespace(l)
        cands == {i \in 1..Len(toks) : Candidate(toks[i])}
    IN  IF Len(toks) = 1 THEN Some(toks[1])
        ELSE IF cands = {} THEN None
        ELSE Some(toks[CHOOSE i \in cands : \A j \in cands : i <= j])

\* a text was parsed whose first non-blank line has several tokens, none of
\* them a candidate
SeveralTokensNoCandidate ==
    /\ parse.pc = "loaded"
    /\ parse.opt.some
    /\ NonBlank # {}
    /\ Len(split_whitespace(GivenLines[FirstNonBlank])) > 1
    /\ ~Yield(GivenLines[FirstNonBlank]).some

\* C19 as stated: the parser stops at the first non-blank line: when that
\* line has several tokens and no candidate, the result is None whatever
\* the later lines hold.
C19_StopsAtFirstLine == SeveralTokensNoCandidate => parse.out = None

\* the later lines that give something on their own
LaterYields == {i \in NonBlank : i > FirstNonBlank /\ Yield(GivenLines[i]).some}

\* C19 amended: when the first non-blank line has several tokens and no
\* candidate the parser goes on: the result is what the first later line
\* with a single token or a candidate gives, and None only when no later
\* line gives anything.
C19_GoesOnToNextLines ==
    SeveralTokensNoCandidate =>
       parse.out = IF LaterYields = {} THEN None
                   ELSE Yield(GivenLines[CHOOSE i \in LaterYields :
                                            \A j \in LaterYields : i <= j])

\* the first non-blank line had several words and no candidate, and the
\* digest of a later line was returned and is the reference text
C19_Witness ==
    /\ SeveralTokensNoCandidate
    /\ parse.out.some
    /\ Candidate(parse.out.val)
    /\ paste_hash = parse.out.val

FirstTokens == SplitOn(trim(GivenLines[FirstNonBlank]), WhiteSpace)

\* hex digits in either case
HexChars ==
    {"0", "1", "2", "3", "4", "5", "6", "7", "8", "9",
     "a", "b", "c", "d", "e", "f", "A", "B", "C", "D", "E", "F"}

\* positions among the tokens of those of 16 or more characters that are
\* all hex digits
DigestsAmong(toks) ==
    {i \in 1..Len(toks) : Len(toks[i]) >= 16 /\ Range(toks[i]) \subseteq HexChars}

\* C21: when the first non-blank line has two or more tokens the result is
\* its leftmost token of 16 or more hex digits, on whichever side of the
\* file name it stands; when the line has no such token nothing is
\* returned from it: no token of 15 hex digits, none with another
\* character.
C21_LeftmostDigest ==
    (/\ parse.pc = "loaded"
     /\ parse.opt.some
     /\ NonBlank # {}
     /\ Len(split_whitespace(GivenLines[FirstNonBlank])) >= 2)
    => LET toks    == FirstTokens
           digests == DigestsAmong(toks)
           later   == LaterYields
       IN  /\ digests # {} =>
                 parse.out = Some(toks[CHOOSE i \in digests : \A j \in digests : i <= j])
           /\ (digests = {} /\ later = {}) => parse.out = None
           /\ (digests = {} /\ parse.out.some) =>
                 \E i \in later : parse.out = Yield(GivenLines[i])

\* a line of three long tokens, the first not hex, gave the second, which
\* is not the digest that stands last in the line
C21_Witness ==
    /\ parse.pc = "loaded"
    /\ parse.opt.some
    /\ NonBlank # {}
    /\ Len(FirstTokens) = 3
    /\ Len(FirstTokens[1]) > 16
    /\ parse.out = Some(FirstTokens[2])
    /\ FirstTokens[2] # FirstTokens[3]

\* the records of this run in the history, first to last
RunRecords == SelectSeq(past, LAMBDA r : r.id > 0)

\* C22: the history is newest first: the records created in this run stand
\* in it with non-increasing creation times, the most recently created
\* record first.
C22_NewestFirst ==
    \A i \in 1..Len(RunRecords) : \A j \in i..Len(RunRecords) :
        RunRecords[i].timestamp >= RunRecords[j].timestamp

\* the reads of the stream that report its end, and those that fail
EndReads == {i \in 1..Len(hashing.reads) :
                hashing.reads[i].ok /\ hashing.reads[i].data = <<>>}

FailedReads == {i \in 1..Len(hashing.reads) : ~hashing.reads[i].ok}

\* the stream can be read to its end: no read fails before the first read
\* of length 0
ReadToEnd ==
    /\ EndReads # {}
    /\ \A f \in FailedReads : \E e \in EndReads : e < f

\* C23: the hasher is fed every byte of the content once and in order, in
\* whatever reads of 1 to 65536 bytes the content arrives, and nothing
\* that follows the first read of length 0; the digest is the hex of the
\* algorithm's hash of the content, the same for every chunking.
C23_ChunkingIndependent ==
    (hashing.pc = "done" /\ hashing.opened /\ ReadToEnd) =>
       /\ hashing.fed = Ok(hashing.content)
       /\ hashing.out = Ok(hex_encode(finalize(hashing.algo, hashing.content)))

\* three bytes arrived in three reads, more bytes stood after the end of
\* the stream, and the digest is that of the three bytes read at once
C23_Witness ==
    /\ hashing.pc = "done"
    /\ hashing.opened
    /\ Len(hashing.content) = 3
    /\ Len(hashing.reads) = 5
    /\ hashing.reads[4] = ReadOk(<<>>)
    /\ hashing.reads[5] = ReadOk(<<9>>)
    /\ hashing.out =
          compute_hash_for_reader(<<ReadOk(hashing.content), ReadOk(<<>>)>>, hashing.algo)

\* C24: the computation fails with an I/O error when the file does not
\* open or a read fails before the end of the stream, and then returns no
\* digest, none over the bytes read before the failure either.
C24_FailsOnIoError ==
    (hashing.pc = "done" /\ (~hashing.opened \/ ~ReadToEnd)) =>
       /\ ~hashing.out.ok
       /\ hashing.out = Err("io::Error")
       /\ "val" \notin DOMAIN hashing.out

\* two reads gave bytes, the third failed, and no digest came back
C24_Witness ==
    /\ hashing.pc = "done"
    /\ hashing.opened
    /\ Len(hashing.reads) = 3
    /\ hashing.reads[1].ok
    /\ hashing.reads[2].ok
    /\ hashing.reads[2].data # <<>>
    /\ ~hashing.reads[3].ok
    /\ ~hashing.out.ok

\* the hex digits in lower case
LowerHexChars ==
    {"0", "1", "2", "3", "4", "5", "6", "7", "8", "9", "a", "b", "c", "d", "e", "f"}

\* C25: a computed hash is a lower-case hex string of the algorithm's
\* length: 64 characters for BLAKE3, SHA-256 and SHA3-256, 128 for SHA-512
\* and 32 for MD5.
C25_DigestShape ==
    (hashing.pc = "done" /\ hashing.out.ok) =>
       /\ Range(hashing.out.val) \subseteq LowerHexChars
       /\ Len(hashing.out.val) =
             CASE hashing.algo \in {"Blake3", "Sha256", "Sha3_256"} -> 64
               [] hashing.algo = "Sha512" -> 128
               [] hashing.algo = "Md5" -> 32

\* a SHA-512 digest of three bytes: 128 characters, letters among them
C25_Witness ==
    /\ hashing.pc = "done"
    /\ hashing.out.ok
    /\ hashing.algo = "Sha512"
    /\ Len(hashing.content) = 3
    /\ Len(hashing.out.val) = 128
    /\ \E i \in 1..128 : hashing.out.val[i] \in {"a", "b", "c", "d", "e", "f"}

\* C26: a record carries the inputs as they were when StartVerify was
\* handled: the task takes the chosen path, the algorithm and the
\* reference of that moment, no message handled while it runs changes
\* what it holds, and the record it builds has that path, that algorithm
\* and that reference.
C26_InputsCaptured ==
    /\ [][\A j \in jobs' \ jobs :
             /\ chosen_file = Some(j.path)
             /\ j.algo = algorithm
             /\ j.ref_hash = IF Blank(paste_hash) THEN None ELSE Some(paste_hash)]_vars
    /\ [][\A j \in jobs : \A k \in jobs' : k.n = j.n => k = j]_vars
    /\ [][\A j \in jobs \ jobs' : \A m \in inbox' \ inbox :
             /\ m.n = j.n
             /\ m.result.ok =>
                   /\ m.result.val.file_path = j.path
                   /\ m.result.val.algorithm = j.algo
                   /\ m.result.val.reference_hash = j.ref_hash]_vars

\* the only verification was started without a reference under BLAKE3;
\* since then MD5 was picked, a reference loaded and the page reset, and
\* the record that waits is that of the start
C26_Witness ==
    /\ spawned = 1
    /\ algorithm = "Md5"
    /\ chosen_file = None
    /\ \E m \in OkMessages :
          /\ m.result.val.algorithm = "Blake3"
          /\ m.result.val.file_path = ReadablePath
          /\ ~m.result.val.reference_hash.some
          /\ Len(m.result.val.computed_hash) = 64

\* C27: the flag is_verifying is true exactly when the step is Verifying.
C27_FlagMatchesStep == is_verifying <=> current_step = "Verifying"

\* C28: a displayed result is the record at index 0 of the history; and a
\* reset, and a completion that carries an error, leave no displayed
\* result.
C28_LastResultIsNewest ==
    /\ [](last_result.some => (past # <<>> /\ past[1] = last_result.val))
    /\ [][ResetVerification => last_result' = None]_vars
    /\ [][\A m \in ErrMessages : Delivered(m) => last_result' = None]_vars

\* the second record of this run is displayed and stands first in the
\* history, before the first
C28_Witness ==
    /\ last_result.some
    /\ Len(past) = 3
    /\ past[1] = last_result.val
    /\ past[2].id > 0
    /\ past[2] # past[1]

\* what load_all makes of the file as it is
Decoded == load_all(db, TRUE)

\* the failed save_all calls since the last that succeeded
RECURSIVE TrailingErrs(_)
TrailingErrs(log) ==
    IF log = <<>> \/ Last(log) = "ok" THEN 0
    ELSE 1 + TrailingErrs(SubSeq(log, 1, Len(log) - 1))

\* the file is whole: no write stopped part-way since the last good one
FileWhole == db.exists /\ db.text.closed

\* C29 as stated: the sequence load_all decodes from the file is a suffix
\* of the in-memory history, and, failed writes leaving the file as it
\* was, the history is ahead of it only by the records whose write failed.
C29_SnapshotIsSuffix ==
    /\ Len(Decoded) <= Len(past)
    /\ \A i \in 1..Len(Decoded) : Decoded[i] = past[Len(past) - Len(Decoded) + i]
    /\ FileWhole => Len(past) - Len(Decoded) = TrailingErrs(save_log)

\* C29 amended: the sequence load_all decodes from the file is, record by
\* record and but for the part of the timestamps below a second, a suffix
\* of the in-memory history, and, failed writes leaving the file as it
\* was, the history is ahead of it only by the records whose write failed.
C29_SnapshotIsSuffixToTheSecond ==
    /\ Len(Decoded) <= Len(past)
    /\ \A i \in 1..Len(Decoded) :
          SameToTheSecond(Decoded[i], past[Len(past) - Len(Decoded) + i])
    /\ FileWhole => Len(past) - Len(Decoded) = TrailingErrs(save_log)

\* one record was saved, the write of the next failed and left the file as
\* it was: the file decodes to the history without its first record, the
\* saved record's timestamp cut to the second
C29_Witness ==
    /\ save_log = <<"ok", "err">>
    /\ FileWhole
    /\ Len(past) = 3
    /\ Len(Decoded) = 2
    /\ Decoded[1].id = past[2].id
    /\ Decoded[1] # past[2]
====
